---- MODULE Spec2Model ----
(***************************************************************************)
(* A model of scraper.py: the festival crawler (pagination discovery, the  *)
(* listing crawl with URL de-duplication, per-page detail extraction, the  *)
(* aggregation in main and the CSV row rendering).                         *)
(*                                                                         *)
(* Strings are sequences of tokens.  A token is one character, except for  *)
(* the fixed words of the site's URLs ("https:", the host name,            *)
(* "festivals", "about"), which no operation of the program looks inside.  *)
(* None is the empty sequence where a field may be absent.                 *)
(***************************************************************************)
EXTENDS Integers, Sequences, FiniteSets, TLC

VARIABLES
    \* main / get_festival_links
    pc,             \* position of main
    cap,            \* the max_pages argument as passed: <<>> is None, <<n>> is n
    total_pages,    \* get_festival_links: total_pages
    max_pages,      \* get_festival_links: max_pages after line 82-83
    page,           \* loop variable of line 88
    pending,        \* festival_links of line 103 not yet visited by line 105
    all_festivals,  \* line 72
    seen_urls,      \* line 73
    festival_links, \* main: the list returned at line 236
    all_data,       \* main: line 242
    idx,            \* main: number of links already scraped (line 243)
    csv_rows,       \* rows written by save_to_csv; <<>> before
    summary,        \* the three counts printed at lines 256-258
    outcome,        \* how main ended: "running", "raised", "no_festivals", "exported"
    \* history (not program state)
    pageLog,        \* one entry per attempt of the loop body of line 88
    seenLog,        \* resolved url of every anchor that reached line 111
    results,        \* every value returned at line 245, in order
    \* scrape_festival_details on its own
    dpc, dpage, festival_data, stage1,
    \* save_to_csv on its own
    epc, festivals_data, written

vars == <<pc, cap, total_pages, max_pages, page, pending, all_festivals, seen_urls,
          festival_links, all_data, idx, csv_rows, summary, outcome,
          pageLog, seenLog, results,
          dpc, dpage, festival_data, stage1,
          epc, festivals_data, written>>

crawlVars == <<pc, cap, total_pages, max_pages, page, pending, all_festivals, seen_urls,
               festival_links, outcome>>
mainVars == <<all_data, idx, csv_rows, summary>>
histVars == <<pageLog, seenLog, results>>
detailVars == <<dpc, dpage, festival_data, stage1>>
exportVars == <<epc, festivals_data, written>>

-----------------------------------------------------------------------------
(* Bounds of the model *)

\* anchors on one listing page
MaxAnchors == 2
\* largest page cap passed to get_festival_links
MaxCap == 2
\* page-number links in the pagination control
MaxPageLinks == 2
\* paragraphs in the header block
MaxParas == 2
\* list items in the lineup container
MaxItems == 2
\* records handed to save_to_csv
MaxRecords == 2

-----------------------------------------------------------------------------
(* Python string operations on token sequences *)

SeqsUpTo(S, n) == UNION {[1..k -> S] : k \in 0..n}

Drop(s, n) == SubSeq(s, n + 1, Len(s))

StartsWith(s, p) == Len(s) >= Len(p) /\ SubSeq(s, 1, Len(p)) = p

EndsWith(s, p) == Len(s) >= Len(p) /\ SubSeq(s, Len(s) - Len(p) + 1, Len(s)) = p

Contains(s, p) == \E i \in 1..(Len(s) - Len(p) + 1) : SubSeq(s, i, i + Len(p) - 1) = p

\* str.strip(chars): drop leading and trailing tokens that are in chars
RECURSIVE LStrip(_, _)
LStrip(s, chars) ==
    IF s # <<>> /\ Head(s) \in chars THEN LStrip(Tail(s), chars) ELSE s

RECURSIVE RStrip(_, _)
RStrip(s, chars) ==
    IF s # <<>> /\ s[Len(s)] \in chars THEN RStrip(SubSeq(s, 1, Len(s) - 1), chars) ELSE s

StripChars(s, chars) == RStrip(LStrip(s, chars), chars)

Whitespace == {" "}

\* str.strip() and get_text(strip=True) of a single text node
Strip(s) == StripChars(s, Whitespace)

\* str.split(sep): leftmost non-overlapping occurrences of sep
RECURSIVE SplitFrom(_, _, _)
SplitFrom(s, sep, cur) ==
    IF s = <<>> THEN <<cur>>
    ELSE IF StartsWith(s, sep) THEN <<cur>> \o SplitFrom(Drop(s, Len(sep)), sep, <<>>)
    ELSE SplitFrom(Tail(s), sep, Append(cur, Head(s)))

Split(s, sep) == SplitFrom(s, sep, <<>>)

\* sep.join(parts)
RECURSIVE Join(_, _)
Join(parts, sep) ==
    IF parts = <<>> THEN <<>>
    ELSE IF Len(parts) = 1 THEN parts[1]
    ELSE parts[1] \o sep \o Join(Tail(parts), sep)

\* str.replace(a, b) for one-token a and b
Replace(s, a, b) == [i \in 1..Len(s) |-> IF s[i] = a THEN b ELSE s[i]]

Lower == {"a", "b", "c", "festivals", "about", "https:"}
Upper == {"A", "B", "C", "Festivals", "About", "Https:"}
Cased == Lower \cup Upper

ToUpper(t) ==
    CASE t = "a" -> "A" [] t = "b" -> "B" [] t = "c" -> "C"
      [] t = "festivals" -> "Festivals" [] t = "about" -> "About"
      [] t = "https:" -> "Https:" [] OTHER -> t

ToLower(t) ==
    CASE t = "A" -> "a" [] t = "B" -> "b" [] t = "C" -> "c" [] OTHER -> t

\* str.title(): a cased token is upper-cased after an uncased one (or at the
\* start) and lower-cased after a cased one
Title(s) ==
    [i \in 1..Len(s) |->
        IF s[i] \notin Cased THEN s[i]
        ELSE IF i = 1 \/ s[i - 1] \notin Cased THEN ToUpper(s[i])
        ELSE ToLower(s[i])]

-----------------------------------------------------------------------------
(* get_total_pages *)

Digits == {"0", "1", "2", "3", "4", "5", "6", "7", "8", "9"}

DigitVal(d) ==
    CASE d = "0" -> 0 [] d = "1" -> 1 [] d = "2" -> 2 [] d = "3" -> 3 [] d = "4" -> 4
      [] d = "5" -> 5 [] d = "6" -> 6 [] d = "7" -> 7 [] d = "8" -> 8 [] d = "9" -> 9

RECURSIVE DecimalValue(_, _)
DecimalValue(ds, acc) ==
    IF ds = <<>> THEN acc ELSE DecimalValue(Tail(ds), 10 * acc + DigitVal(Head(ds)))

\* int(text): optional sign, then one or more digits; anything else raises
\* ValueError (ok = FALSE)
ParseInt(text) ==
    LET t == Strip(text)
        signed == t # <<>> /\ Head(t) \in {"+", "-"}
        ds == IF signed THEN Tail(t) ELSE t
    IN  IF ds # <<>> /\ \A i \in 1..Len(ds) : ds[i] \in Digits
        THEN [ok |-> TRUE,
              val |-> IF signed /\ Head(t) = "-" THEN 0 - DecimalValue(ds, 0)
                      ELSE DecimalValue(ds, 0)]
        ELSE [ok |-> FALSE, val |-> 0]

\* lines 58-64: the numbers that parse, in document order
RECURSIVE page_numbers(_)
page_numbers(page_links) ==
    IF page_links = <<>> THEN <<>>
    ELSE LET r == ParseInt(Head(page_links))
         IN  (IF r.ok THEN <<r.val>> ELSE <<>>) \o page_numbers(Tail(page_links))

MaxOf(ns) == CHOOSE m \in {ns[i] : i \in 1..Len(ns)} : \A i \in 1..Len(ns) : ns[i] <= m

\* soup: [pagination |-> BOOLEAN, page_links |-> sequence of link texts]
get_total_pages(soup) ==
    IF ~soup.pagination THEN 1
    ELSE LET nums == page_numbers(soup.page_links)
         IN  IF nums # <<>> THEN MaxOf(nums) ELSE 1

\* texts a page-number link can carry
PageLinkTexts ==
    { <<"1">>, <<"2">>, <<" ", "2", " ">>, <<"0">>, <<"-", "1">>, <<"n", "e", "x", "t">>, <<>> }

FirstPageSoups ==
    { [pagination |-> FALSE, page_links |-> <<>>] } \cup
    { [pagination |-> TRUE, page_links |-> ls] : ls \in SeqsUpTo(PageLinkTexts, MaxPageLinks) }

-----------------------------------------------------------------------------
(* get_festival_links *)

Origin == <<"https:", "/", "/", "www.musicfestivalwizard.com">>

FestivalsSeg == <<"/", "festivals", "/">>

\* line 103: the href filter of find_all
IsFestivalAnchor(a) == a.href # <<>> /\ Contains(a.href, FestivalsSeg)

\* line 107
IsSkipped(href) == href = <<>> \/ EndsWith(href, FestivalsSeg)

\* lines 109-110
Resolve(href) == IF StartsWith(href, <<"/">>) THEN Origin \o href ELSE href

\* lines 114-116
LinkName(a, href) ==
    LET name == Strip(a.text)
        parts == Split(href, <<"/">>)
    IN  IF name = <<>> \/ Len(name) < 3
        THEN Title(Replace(parts[Len(parts) - 1], "-", " "))
        ELSE name

\* the duplicate test left out
IsDuplicateNever(href, seen) == FALSE

\* line 111: the duplicate test of the loop body
IsDuplicate(href, seen) == href \in seen

\* lines 106-117: one pass of the loop body on anchor a; the new
\* <<all_festivals, seen_urls>>
MergeAnchor(a, festivals, seen) ==
    IF IsSkipped(a.href) THEN <<festivals, seen>>
    ELSE LET href == Resolve(a.href)
         IN  IF IsDuplicate(href, seen) THEN <<festivals, seen>>
             ELSE <<Append(festivals, [name |-> LinkName(a, href), url |-> href]),
                    seen \cup {href}>>

\* the cap taken as given, without the comparison with total_pages
EffectiveMaxPagesUnclamped(c, total) == IF c = <<>> THEN total ELSE c[1]

\* lines 82-83
EffectiveMaxPages(c, total) == IF c = <<>> \/ c[1] > total THEN total ELSE c[1]

\* the anchors a listing page can hold
HrefAB == FestivalsSeg \o <<"a", "-", "b", "/">>
HrefC == FestivalsSeg \o <<"c", "/">>
Anchors ==
    { [href |-> HrefAB, text |-> <<"A", "b", " ", "F">>],
      [href |-> Origin \o HrefAB, text |-> <<" ", "A", "b", " ">>],
      [href |-> HrefC, text |-> <<>>],
      [href |-> FestivalsSeg, text |-> <<"A", "l", "l">>],
      [href |-> <<"/", "about", "/">>, text |-> <<"A", "b", "o", "u", "t">>] }

ListingPages == SeqsUpTo(Anchors, MaxAnchors)

Caps == {<<>>} \cup {<<n>> : n \in (0 - 1)..MaxCap}

\* line 77-80 succeed: pagination discovery, lines 82-83
LoadFirstPage ==
    /\ pc = "FetchingFirst"
    /\ \E soup \in FirstPageSoups :
          /\ total_pages' = get_total_pages(soup)
          /\ max_pages' = EffectiveMaxPages(cap, get_total_pages(soup))
    /\ page' = 1
    /\ pc' = "Paginating"
    /\ UNCHANGED <<cap, pending, all_festivals, seen_urls, festival_links, outcome>>

\* lines 77-79 raise: nothing in get_festival_links catches it, main's
\* finally closes the browser and the exception leaves main
LoadFirstPageRaises ==
    /\ pc = "FetchingFirst"
    /\ pc' = "Closed"
    /\ outcome' = "raised"
    /\ UNCHANGED <<cap, total_pages, max_pages, page, pending, all_festivals, seen_urls,
                   festival_links>>

\* lines 96-103 succeed on a page holding the given anchors: the wait of
\* line 98 needs at least one festival anchor
FetchPageOk(anchors) ==
    /\ pc = "Paginating"
    /\ page <= max_pages
    /\ \E i \in 1..Len(anchors) : IsFestivalAnchor(anchors[i])
    /\ pending' = SelectSeq(anchors, IsFestivalAnchor)
    /\ pc' = "Merging"
    /\ UNCHANGED <<cap, total_pages, max_pages, page, all_festivals, seen_urls,
                   festival_links, outcome>>

\* a failing page ending the loop instead of being skipped
FetchPageFailsAborts(anchors) ==
    /\ pc = "Paginating"
    /\ page <= max_pages
    /\ page' = max_pages + 1
    /\ UNCHANGED <<pc, cap, total_pages, max_pages, pending, all_festivals, seen_urls,
                   festival_links, outcome>>

\* lines 96-102 raise (the fetch, the wait or the parse) on a page holding
\* the given anchors: lines 121-123
FetchPageFails(anchors) ==
    /\ pc = "Paginating"
    /\ page <= max_pages
    /\ page' = page + 1
    /\ UNCHANGED <<pc, cap, total_pages, max_pages, pending, all_festivals, seen_urls,
                   festival_links, outcome>>

\* lines 105-117, one anchor
MergeLink ==
    /\ pc = "Merging"
    /\ pending # <<>>
    /\ LET r == MergeAnchor(Head(pending), all_festivals, seen_urls)
       IN  /\ all_festivals' = r[1]
           /\ seen_urls' = r[2]
    /\ pending' = Tail(pending)
    /\ UNCHANGED <<pc, cap, total_pages, max_pages, page, festival_links, outcome>>

\* line 119, then the next iteration of line 88
EndPage ==
    /\ pc = "Merging"
    /\ pending = <<>>
    /\ page' = page + 1
    /\ pc' = "Paginating"
    /\ UNCHANGED <<cap, total_pages, max_pages, pending, all_festivals, seen_urls,
                   festival_links, outcome>>

\* lines 125-126, and the assignment of line 236
ReturnLinks ==
    /\ pc = "Paginating"
    /\ page > max_pages
    /\ festival_links' = all_festivals
    /\ pc' = "Done"
    /\ UNCHANGED <<cap, total_pages, max_pages, page, pending, all_festivals, seen_urls,
                   outcome>>

-----------------------------------------------------------------------------
(* scrape_festival_details *)

\* line 132
EmptyRecord == [name |-> <<>>, date |-> <<>>, location |-> <<>>, artists |-> <<>>]

RangeSep == <<" ", "-", " ">>

\* the range written whenever both dates are given, equal or not
JsonLdDateAlwaysRange(cur, start_date, end_date) ==
    IF start_date # <<>> /\ end_date # <<>>
    THEN start_date \o RangeSep \o end_date
    ELSE IF start_date # <<>> THEN start_date
    ELSE cur

\* lines 147-150: the date of the structured-data stage; cur is the value
\* the field had before
JsonLdDate(cur, start_date, end_date) ==
    IF start_date # <<>> /\ end_date # <<>> /\ start_date # end_date
    THEN start_date \o RangeSep \o end_date
    ELSE IF start_date # <<>> THEN start_date
    ELSE cur

\* line 155
JsonLdLocation(locality, region) == StripChars(locality \o <<",", " ">> \o region, {",", " "})

\* lines 141-157.  j.kind: "absent" (no script element), "malformed"
\* (json.loads or the first .get raises), "object".  j.location.kind:
\* "missing" (no location key), "not_dict" (line 151 raises, after name and
\* date were set), "address_not_dict" (line 152 is false), "address".
JsonLdStage(fd, j) ==
    IF j.kind # "object" THEN fd
    ELSE LET named == [fd EXCEPT !.name = j.name,
                                 !.date = JsonLdDate(fd.date, j.startDate, j.endDate)]
         IN  CASE j.location.kind = "not_dict" -> named
               [] j.location.kind = "address_not_dict" -> named
               [] j.location.kind = "missing" ->
                     [named EXCEPT !.location = JsonLdLocation(<<>>, <<>>)]
               [] OTHER ->
                     [named EXCEPT !.location =
                         JsonLdLocation(j.location.locality, j.location.region)]

\* line 160: whether the fallback block is entered
FallbackRuns(fd) == fd.name = <<>> \/ fd.date = <<>>

\* lines 163-165: h.h1 is <<>> (no h1 element) or <<text>>
FallbackName(fd, h) == IF h.h1 # <<>> THEN Strip(h.h1[1]) ELSE fd.name

\* lines 166-168
FallbackDate(fd, h) ==
    IF Len(h.paras) >= 1 /\ fd.date = <<>> THEN Strip(h.paras[1]) ELSE fd.date

\* lines 169-170
FallbackLocation(fd, h) ==
    IF Len(h.paras) >= 2 /\ fd.location = <<>> THEN Strip(h.paras[2]) ELSE fd.location

\* lines 160-170
FallbackStage(fd, h) ==
    IF FallbackRuns(fd) /\ h.present
    THEN [fd EXCEPT !.name = FallbackName(fd, h),
                    !.date = FallbackDate(fd, h),
                    !.location = FallbackLocation(fd, h)]
    ELSE fd

\* lines 175-178
RECURSIVE LineupArtists(_)
LineupArtists(items) ==
    IF items = <<>> THEN <<>>
    ELSE (IF Strip(Head(items)) # <<>> THEN <<Strip(Head(items))>> ELSE <<>>)
         \o LineupArtists(Tail(items))

\* lines 173-178
LineupStage(fd, l) ==
    IF l.present THEN [fd EXCEPT !.artists = fd.artists \o LineupArtists(l.items)] ELSE fd

\* lines 132-184: dp.fetch_ok is FALSE when lines 135-137 raise
scrape_festival_details(dp) ==
    IF ~dp.fetch_ok THEN EmptyRecord
    ELSE LineupStage(FallbackStage(JsonLdStage(EmptyRecord, dp.json_ld), dp.header), dp.lineup)

NoLocation == [kind |-> "missing", locality |-> <<>>, region |-> <<>>]

JsonLdLocations ==
    { NoLocation,
      [kind |-> "not_dict", locality |-> <<>>, region |-> <<>>],
      [kind |-> "address_not_dict", locality |-> <<>>, region |-> <<>>] } \cup
    { [kind |-> "address", locality |-> lo, region |-> re] :
        lo \in {<<>>, <<"Austin">>}, re \in {<<>>, <<"TX">>} }

NoJsonLd ==
    [kind |-> "absent", name |-> <<>>, startDate |-> <<>>, endDate |-> <<>>,
     location |-> NoLocation]

JsonLds ==
    { NoJsonLd, [NoJsonLd EXCEPT !.kind = "malformed"] } \cup
    { [kind |-> "object", name |-> n, startDate |-> sd, endDate |-> ed, location |-> lo] :
        n \in {<<>>, <<"T", "e", "s", "t">>},
        sd \in {<<>>, <<"2026-06-01">>},
        ed \in {<<>>, <<"2026-06-01">>, <<"2026-06-03">>},
        lo \in JsonLdLocations }

NoHeader == [present |-> FALSE, h1 |-> <<>>, paras |-> <<>>]

Headers ==
    { NoHeader } \cup
    { [present |-> TRUE, h1 |-> h, paras |-> ps] :
        h \in {<<>>, << <<>> >>, << <<" ", "H", "d", " ">> >>},
        ps \in SeqsUpTo({<<>>, <<"P", " ">>}, MaxParas) }

NoLineup == [present |-> FALSE, items |-> <<>>]

Lineups ==
    { NoLineup } \cup
    { [present |-> TRUE, items |-> is] :
        is \in SeqsUpTo({<<" ">>, <<" ", "x">>}, MaxItems) }

DetailPages ==
    { [fetch_ok |-> TRUE, json_ld |-> j, header |-> h, lineup |-> l] :
        j \in JsonLds, h \in Headers, l \in Lineups }

\* lines 135-137, and lines 182-184 when they raise
DetailFetch ==
    /\ dpc = "start"
    /\ \/ dpc' = "fetched" /\ UNCHANGED festival_data
       \/ dpc' = "returned_on_error" /\ festival_data' = EmptyRecord
    /\ UNCHANGED <<dpage, stage1>>

\* lines 140-157
DetailJsonLd ==
    /\ dpc = "fetched"
    /\ festival_data' = JsonLdStage(festival_data, dpage.json_ld)
    /\ stage1' = festival_data'
    /\ dpc' = "json_ld_done"
    /\ UNCHANGED dpage

\* lines 160-170
DetailFallback ==
    /\ dpc = "json_ld_done"
    /\ festival_data' = FallbackStage(festival_data, dpage.header)
    /\ dpc' = "fallback_done"
    /\ UNCHANGED <<dpage, stage1>>

\* lines 173-180
DetailLineup ==
    /\ dpc = "fallback_done"
    /\ festival_data' = LineupStage(festival_data, dpage.lineup)
    /\ dpc' = "returned"
    /\ UNCHANGED <<dpage, stage1>>

-----------------------------------------------------------------------------
(* save_to_csv *)

ArtistSep == <<",", " ">>

\* the artists joined with a comma alone
CsvRowCommaOnly(fest) ==
    [Festival |-> fest.name, Date |-> fest.date, Location |-> fest.location,
     Artists |-> Join(fest.artists, <<",">>)]

\* lines 214-220: the row written for one record
CsvRow(fest) ==
    [Festival |-> fest.name, Date |-> fest.date, Location |-> fest.location,
     Artists |-> Join(fest.artists, ArtistSep)]

\* lines 213-220: one row per record, in order
save_to_csv(data) == [i \in 1..Len(data) |-> CsvRow(data[i])]

\* artist names as line 176 yields them: trimmed and not empty
ArtistNames == { <<"x">>, <<",", "y", ",">>, <<"x", ",", " ", "y">> }

ExportRecords ==
    { [name |-> <<"T">>, date |-> <<>>, location |-> <<>>, artists |-> as] :
        as \in SeqsUpTo(ArtistNames, MaxItems) }

ExportSave ==
    /\ epc = "start"
    /\ written' = save_to_csv(festivals_data)
    /\ epc' = "saved"
    /\ UNCHANGED festivals_data

-----------------------------------------------------------------------------
(* main *)

\* every result kept, named or not
IsRetainedAlways(data) == TRUE

\* line 246
IsRetained(data) == data.name # <<>>

\* line 257
WithLineup(data) == Cardinality({i \in 1..Len(data) : data[i].artists # <<>>})

\* line 258
RECURSIVE TotalArtists(_)
TotalArtists(data) ==
    IF data = <<>> THEN 0 ELSE Len(Head(data).artists) + TotalArtists(Tail(data))

\* lines 256-258
Summary(data) ==
    [total |-> Len(data), with_lineup |-> WithLineup(data), artists |-> TotalArtists(data)]

NoSummary == [total |-> 0, with_lineup |-> 0, artists |-> 0]

\* the detail pages main is run on: a failed fetch, structured data with a
\* lineup repeating an artist, a header-only page, a page without any name
MainDetailPages ==
    { [fetch_ok |-> FALSE, json_ld |-> NoJsonLd, header |-> NoHeader, lineup |-> NoLineup],
      [fetch_ok |-> TRUE,
       json_ld |-> [NoJsonLd EXCEPT !.kind = "object", !.name = <<"T", "e", "s", "t">>],
       header |-> NoHeader,
       lineup |-> [present |-> TRUE, items |-> << <<" ", "x">>, <<" ", "x">> >>]],
      [fetch_ok |-> TRUE, json_ld |-> NoJsonLd,
       header |-> [present |-> TRUE, h1 |-> << <<" ", "H", "d", " ">> >>, paras |-> <<>>],
       lineup |-> NoLineup],
      [fetch_ok |-> TRUE, json_ld |-> NoJsonLd, header |-> NoHeader,
       lineup |-> [present |-> TRUE, items |-> << <<" ", "x">> >>]] }

\* lines 237-239, then the finally of line 262
NoFestivals ==
    /\ pc = "Done"
    /\ festival_links = <<>>
    /\ pc' = "Closed"
    /\ outcome' = "no_festivals"
    /\ UNCHANGED <<cap, total_pages, max_pages, page, pending, all_festivals, seen_urls,
                   festival_links, mainVars, results>>

\* lines 243-248, one link
ScrapeNext ==
    /\ pc \in {"Done", "Scraping"}
    /\ idx < Len(festival_links)
    /\ \E dp \in MainDetailPages :
          LET data == scrape_festival_details(dp)
          IN  /\ all_data' = IF IsRetained(data) THEN Append(all_data, data) ELSE all_data
              /\ results' = Append(results, data)
    /\ idx' = idx + 1
    /\ pc' = "Scraping"
    /\ UNCHANGED <<cap, total_pages, max_pages, page, pending, all_festivals, seen_urls,
                   festival_links, outcome, csv_rows, summary>>

\* lines 250-263
SaveResults ==
    /\ pc = "Scraping"
    /\ idx = Len(festival_links)
    /\ csv_rows' = save_to_csv(all_data)
    /\ summary' = Summary(all_data)
    /\ pc' = "Closed"
    /\ outcome' = "exported"
    /\ UNCHANGED <<cap, total_pages, max_pages, page, pending, all_festivals, seen_urls,
                   festival_links, all_data, idx, results>>

-----------------------------------------------------------------------------
(* Specifications *)

NoDetailPage ==
    [fetch_ok |-> FALSE, json_ld |-> NoJsonLd, header |-> NoHeader, lineup |-> NoLineup]

DetailIdle ==
    /\ dpc = "idle"
    /\ dpage = NoDetailPage
    /\ festival_data = EmptyRecord
    /\ stage1 = EmptyRecord

ExportIdle ==
    /\ epc = "idle"
    /\ festivals_data = <<>>
    /\ written = <<>>

MainIdle ==
    /\ pc = "idle"
    /\ cap = <<>>
    /\ total_pages = 0
    /\ max_pages = 0
    /\ page = 0
    /\ pending = <<>>
    /\ all_festivals = <<>>
    /\ seen_urls = {}
    /\ festival_links = <<>>
    /\ all_data = <<>>
    /\ idx = 0
    /\ csv_rows = <<>>
    /\ summary = NoSummary
    /\ outcome = "running"
    /\ pageLog = <<>>
    /\ seenLog = <<>>
    /\ results = <<>>

\* main after line 230, get_festival_links after lines 72-73
Init ==
    /\ pc = "FetchingFirst"
    /\ cap \in Caps
    /\ total_pages = 0
    /\ max_pages = 0
    /\ page = 0
    /\ pending = <<>>
    /\ all_festivals = <<>>
    /\ seen_urls = {}
    /\ festival_links = <<>>
    /\ all_data = <<>>
    /\ idx = 0
    /\ csv_rows = <<>>
    /\ summary = NoSummary
    /\ outcome = "running"
    /\ pageLog = <<>>
    /\ seenLog = <<>>
    /\ results = <<>>
    /\ DetailIdle
    /\ ExportIdle

Unlogged == UNCHANGED <<mainVars, histVars, detailVars, exportVars>>

Next ==
    \/ LoadFirstPage /\ Unlogged
    \/ LoadFirstPageRaises /\ Unlogged
    \/ \E anchors \in ListingPages : FetchPageOk(anchors) /\ Unlogged
    \/ \E anchors \in ListingPages : FetchPageFails(anchors) /\ Unlogged
    \/ MergeLink /\ Unlogged
    \/ EndPage /\ Unlogged
    \/ ReturnLinks /\ Unlogged
    \/ NoFestivals /\ UNCHANGED <<pageLog, seenLog, detailVars, exportVars>>
    \/ ScrapeNext /\ UNCHANGED <<pageLog, seenLog, detailVars, exportVars>>
    \/ SaveResults /\ UNCHANGED <<pageLog, seenLog, detailVars, exportVars>>

Spec == Init /\ [][Next]_vars

\* get_festival_links on its own, with the log of what it did
LogAttempt(ok, anchors) ==
    pageLog' = Append(pageLog, [page |-> page, ok |-> ok, anchors |-> anchors])

LogMerge ==
    seenLog' = IF IsSkipped(Head(pending).href) THEN seenLog
               ELSE Append(seenLog, [page |-> page, href |-> Head(pending).href,
                                     url |-> Resolve(Head(pending).href)])

CrawlOnly == UNCHANGED <<mainVars, results, detailVars, exportVars>>

NextCrawl ==
    \/ LoadFirstPage /\ UNCHANGED <<pageLog, seenLog>> /\ CrawlOnly
    \/ LoadFirstPageRaises /\ UNCHANGED <<pageLog, seenLog>> /\ CrawlOnly
    \/ \E anchors \in ListingPages :
          FetchPageOk(anchors) /\ LogAttempt(TRUE, anchors) /\ UNCHANGED seenLog /\ CrawlOnly
    \/ \E anchors \in ListingPages :
          FetchPageFails(anchors) /\ LogAttempt(FALSE, anchors) /\ UNCHANGED seenLog /\ CrawlOnly
    \/ MergeLink /\ LogMerge /\ UNCHANGED pageLog /\ CrawlOnly
    \/ EndPage /\ UNCHANGED <<pageLog, seenLog>> /\ CrawlOnly
    \/ ReturnLinks /\ UNCHANGED <<pageLog, seenLog>> /\ CrawlOnly

SpecCrawl == Init /\ [][NextCrawl]_vars

\* get_festival_links on its own, with the log of the attempts only
NextLoop ==
    \/ LoadFirstPage /\ UNCHANGED <<pageLog, seenLog>> /\ CrawlOnly
    \/ LoadFirstPageRaises /\ UNCHANGED <<pageLog, seenLog>> /\ CrawlOnly
    \/ \E anchors \in ListingPages :
          FetchPageOk(anchors) /\ LogAttempt(TRUE, <<>>) /\ UNCHANGED seenLog /\ CrawlOnly
    \/ \E anchors \in ListingPages :
          FetchPageFails(anchors) /\ LogAttempt(FALSE, <<>>) /\ UNCHANGED seenLog /\ CrawlOnly
    \/ MergeLink /\ UNCHANGED <<pageLog, seenLog>> /\ CrawlOnly
    \/ EndPage /\ UNCHANGED <<pageLog, seenLog>> /\ CrawlOnly
    \/ ReturnLinks /\ UNCHANGED <<pageLog, seenLog>> /\ CrawlOnly

\* the loop is sequential code whose only waits are the blocking fetch and
\* the bounded wait of line 98: a step that can be taken is taken
FairCrawl == Init /\ [][NextLoop]_vars /\ WF_vars(NextLoop)

\* scrape_festival_details on its own, on every page of DetailPages
InitDetail ==
    /\ MainIdle
    /\ ExportIdle
    /\ dpc = "start"
    /\ dpage \in DetailPages
    /\ festival_data = EmptyRecord
    /\ stage1 = EmptyRecord

DetailOnly == UNCHANGED <<crawlVars, mainVars, histVars, exportVars>>

NextDetail ==
    \/ DetailFetch /\ DetailOnly
    \/ DetailJsonLd /\ DetailOnly
    \/ DetailFallback /\ DetailOnly
    \/ DetailLineup /\ DetailOnly

SpecDetail == InitDetail /\ [][NextDetail]_vars

\* save_to_csv on its own
InitExport ==
    /\ MainIdle
    /\ DetailIdle
    /\ epc = "start"
    /\ festivals_data \in SeqsUpTo(ExportRecords, MaxRecords)
    /\ written = <<>>

NextExport == ExportSave /\ UNCHANGED <<crawlVars, mainVars, histVars, detailVars>>

SpecExport == InitExport /\ [][NextExport]_vars

-----------------------------------------------------------------------------
(* Properties *)

Urls(fs) == [i \in 1..Len(fs) |-> fs[i].url]

NoRepeat(us) == \A i, j \in 1..Len(us) : us[i] = us[j] => i = j

IsPrefix(a, b) == Len(a) <= Len(b) /\ SubSeq(b, 1, Len(a)) = a

\* what is left of a sequence of urls when only the first occurrence of
\* each is kept
RECURSIVE FirstSeen(_, _)
FirstSeen(us, acc) ==
    IF us = <<>> THEN acc
    ELSE FirstSeen(Tail(us),
                   IF \E i \in 1..Len(acc) : acc[i] = Head(us) THEN acc
                   ELSE Append(acc, Head(us)))

LoggedUrls == [i \in 1..Len(seenLog) |-> seenLog[i].url]

\* the current entries are the urls seen so far, each once, in first-seen order
C1_State ==
    /\ NoRepeat(Urls(all_festivals))
    /\ Urls(all_festivals) = FirstSeen(LoggedUrls, <<>>)
    /\ seen_urls = {LoggedUrls[i] : i \in 1..Len(LoggedUrls)}
    /\ pc = "Done" => festival_links = all_festivals

\* entries are only ever appended, and an anchor whose url was already seen
\* leaves the list as it is
C1_Step ==
    /\ IsPrefix(all_festivals, all_festivals')
    /\ (/\ Len(seenLog') = Len(seenLog) + 1
        /\ \E i \in 1..Len(seenLog) : seenLog[i].url = seenLog'[Len(seenLog')].url)
       => all_festivals' = all_festivals

\* C1: at every point of the crawl loop and in the returned list, no two
\* entries have the same resolved url and the entries are in first-seen
\* order (page order, then document order); an anchor whose url was already
\* seen never adds, moves or replaces an entry.
C1_DedupFirstSeenOrder == [](C1_State) /\ [][C1_Step]_vars

\* C1 witness: the crawl returned two entries after meeting the same url
\* twice, once as a relative and once as an absolute href
C1_Witness ==
    /\ pc = "Done"
    /\ Len(festival_links) = 2
    /\ \E i, j \in 1..Len(seenLog) :
          i < j /\ seenLog[i].url = seenLog[j].url /\ seenLog[i].href # seenLog[j].href

\* C2: when the structured-data stage set a non-empty name, the returned
\* name is that name, whatever the header block holds.
C2_FallbackKeepsStructuredName ==
    (dpc = "returned" /\ stage1.name # <<>>) => festival_data.name = stage1.name

\* C3: a location the structured-data stage left empty is the trimmed text
\* of the second header paragraph whenever the header block has one, also
\* when name and date were both set by the structured data.
C3_LocationFilledIndependently ==
    (/\ dpc = "returned"
     /\ stage1.location = <<>>
     /\ dpage.header.present
     /\ Len(dpage.header.paras) >= 2)
    => festival_data.location = Strip(dpage.header.paras[2])

\* C4: however the fetches fail, main ends having written an export.
C4_RunAlwaysExports == pc = "Closed" => outcome = "exported"

\* C5: the page count that pagination discovery returned is at least 1.
C5_TotalPagesAtLeastOne ==
    pc \in {"Paginating", "Merging", "Done", "Scraping"} => total_pages >= 1

\* the urls a listing page contributes, in document order
RECURSIVE PageUrls(_)
PageUrls(anchors) ==
    IF anchors = <<>> THEN <<>>
    ELSE LET h == Head(anchors).href
             festival == Contains(h, <<"/", "festivals", "/">>)
             index == EndsWith(h, <<"/", "festivals", "/">>)
         IN  (IF festival /\ ~index
              THEN <<IF Head(h) = "/" THEN Origin \o h ELSE h>> ELSE <<>>)
             \o PageUrls(Tail(anchors))

\* the urls of the pages of a log that succeeded, in page order
RECURSIVE SucceededUrls(_)
SucceededUrls(log) ==
    IF log = <<>> THEN <<>>
    ELSE (IF Head(log).ok THEN PageUrls(Head(log).anchors) ELSE <<>>)
         \o SucceededUrls(Tail(log))

\* a step on which an attempt of a page was logged as failed
FailedAttempt == Len(pageLog') = Len(pageLog) + 1 /\ ~pageLog'[Len(pageLog')].ok

C6_Step ==
    FailedAttempt =>
        /\ all_festivals' = all_festivals
        /\ seen_urls' = seen_urls
        /\ page' = page + 1
        /\ pc' = "Paginating"

C6_State ==
    pc = "Done" =>
        /\ Urls(festival_links) = FirstSeen(SucceededUrls(pageLog), <<>>)
        /\ Len(pageLog) = IF max_pages > 0 THEN max_pages ELSE 0

\* C6: a listing page that fails contributes no link, leaves the links and
\* the seen urls of the earlier pages as they are, and the loop goes on to
\* the next page: the returned links are those of all the pages that
\* succeeded, before and after the failed ones.
C6_FailedPageIsSkipped == [][C6_Step]_vars /\ [](C6_State)

\* C6 witness: the crawl returned after page 1 failed and page 2 gave a link
C6_Witness ==
    /\ pc = "Done"
    /\ Len(pageLog) = 2
    /\ ~pageLog[1].ok
    /\ pageLog[2].ok
    /\ festival_links # <<>>

\* C7: after the structured-data stage the date is "start - end" when both
\* are given and differ, start alone when start is given and end is empty
\* or equal to it, and empty when start is empty.
C7_StructuredDateRule ==
    (dpc = "json_ld_done" /\ dpage.json_ld.kind = "object") =>
        LET s == dpage.json_ld.startDate
            e == dpage.json_ld.endDate
            d == festival_data.date
        IN  /\ (s # <<>> /\ e # <<>> /\ s # e) => d = s \o <<" ", "-", " ">> \o e
            /\ (s # <<>> /\ (e = <<>> \/ e = s)) =>
                  (d = s /\ ~Contains(d, <<" ", "-", " ">>))
            /\ s = <<>> => d = <<>>

\* C7 witness: the stage ran on structured data whose start and end date
\* are the same day
C7_Witness ==
    /\ dpc = "json_ld_done"
    /\ dpage.json_ld.kind = "object"
    /\ dpage.json_ld.startDate # <<>>
    /\ dpage.json_ld.startDate = dpage.json_ld.endDate

\* the records of rs that have a name, in order
RECURSIVE Named(_)
Named(rs) ==
    IF rs = <<>> THEN <<>>
    ELSE (IF Len(Head(rs).name) > 0 THEN <<Head(rs)>> ELSE <<>>) \o Named(Tail(rs))

RECURSIVE CountLineups(_)
CountLineups(rs) ==
    IF rs = <<>> THEN 0
    ELSE (IF Len(Head(rs).artists) > 0 THEN 1 ELSE 0) + CountLineups(Tail(rs))

RECURSIVE CountArtists(_)
CountArtists(rs) ==
    IF rs = <<>> THEN 0 ELSE Len(Head(rs).artists) + CountArtists(Tail(rs))

\* C8: what main exports is the per-link results that have a name, in link
\* order; the total is their number, the with-lineup count the number of
\* them with artists, the artist total the sum of their lineups' lengths.
C8_Aggregation ==
    /\ all_data = Named(results)
    /\ outcome = "exported" =>
          /\ Len(results) = Len(festival_links)
          /\ Len(csv_rows) = Len(Named(results))
          /\ \A i \in 1..Len(csv_rows) : csv_rows[i].Festival = Named(results)[i].name
          /\ summary.total = Len(Named(results))
          /\ summary.with_lineup = CountLineups(Named(results))
          /\ summary.artists = CountArtists(Named(results))

\* C8 witness: an export after a nameless result with a lineup was dropped
\* and a named result listing the same artist twice was kept
C8_Witness ==
    /\ outcome = "exported"
    /\ \E i \in 1..Len(results) : results[i].name = <<>> /\ results[i].artists # <<>>
    /\ \E i \in 1..Len(all_data) :
          Len(all_data[i].artists) = 2 /\ all_data[i].artists[1] = all_data[i].artists[2]

\* C9 as stated: splitting the written Artists value on ", " gives back the
\* artists of every record that has a lineup.
C9_SplitRoundTrip ==
    epc = "saved" =>
        \A i \in 1..Len(festivals_data) :
            festivals_data[i].artists # <<>> =>
                Split(written[i].Artists, <<",", " ">>) = festivals_data[i].artists

NoSepInside(artists) ==
    \A k \in 1..Len(artists) : ~Contains(artists[k], <<",", " ">>)

\* C9: splitting the written Artists value on ", " gives back the artists
\* of every record that has a lineup none of whose artists contains ", ".
C9_SplitRoundTripNoSep ==
    epc = "saved" =>
        /\ Len(written) = Len(festivals_data)
        /\ \A i \in 1..Len(festivals_data) :
              (festivals_data[i].artists # <<>> /\ NoSepInside(festivals_data[i].artists)) =>
                  Split(written[i].Artists, <<",", " ">>) = festivals_data[i].artists

\* C9 witness: a record with two artists, the first starting and ending
\* with a comma, was written
C9_Witness ==
    /\ epc = "saved"
    /\ \E i \in 1..Len(festivals_data) :
          /\ Len(festivals_data[i].artists) = 2
          /\ NoSepInside(festivals_data[i].artists)
          /\ festivals_data[i].artists[1] = <<",", "y", ",">>

\* the page bound of the run: min(cap, totalPages), totalPages without a cap
PageBound ==
    IF cap = <<>> THEN total_pages
    ELSE IF cap[1] < total_pages THEN cap[1] ELSE total_pages

C10_State ==
    /\ \A i \in 1..Len(pageLog) : pageLog[i].page = i
    /\ pc \in {"Paginating", "Merging", "Done"} => Len(pageLog) <= (IF PageBound > 0 THEN PageBound ELSE 0)
    /\ pc = "Done" =>
          /\ Len(pageLog) = IF PageBound > 0 THEN PageBound ELSE 0
          /\ festival_links = all_festivals

\* C10: the loop attempts the pages 1..min(cap, totalPages) in increasing
\* order, each once whether it fails or not, then returns the collected
\* links; once started it always gets there.
C10_PagesAttemptedOnceThenDone ==
    /\ [](C10_State)
    /\ (pc = "Paginating") ~> (pc = "Done")

\* C10 witness: with a cap of 1 and two pages discovered, the crawl
\* returned after one attempt, which failed
C10_Witness ==
    /\ pc = "Done"
    /\ cap = <<1>>
    /\ total_pages = 2
    /\ Len(pageLog) = 1
    /\ ~pageLog[1].ok

====
